---- MODULE Spec2Model ----
(* Reactive dependency graph of vanilla-signals: Signal / Computed / Effect.  *)
(* Two variants of the library are modelled, selected by the variable impl:   *)
(*   "part_000" : src/unnamed/part_000      (dedup subscribe, destroy guard)  *)
(*   "index"    : src/src/reactive/index.ts (no dedup, no destroy)            *)
(* Every public call (getter(), getter.set(v), handle.destroy(), one deferred *)
(* microtask) is one atomic action: the library is synchronous and            *)
(* single-threaded, so a call runs to completion before anything else.        *)
(* Three specifications share the actions: Spec (programs whose functions     *)
(* return normally), SpecThrow (programs whose functions can throw) and       *)
(* SpecGC (Spec's actions plus the garbage collector and dropped handles).    *)
EXTENDS Integers, Sequences, FiniteSets, TLC

\* ------------------------------------------------------------------ bounds
MaxVal == 2
MaxSubs == 3

\* ------------------------------------------------------------- basic data
NONE == -1

\* values the callers write: any value, or a flag
Vals == 0..MaxVal
Flags == 0..1

Impls == {"part_000", "index"}

Range(s) == {s[i] : i \in 1..Len(s)}

Count(s, x) == Cardinality({i \in 1..Len(s) : s[i] = x})

RemoveAll(s, x) == SelectSeq(s, LAMBDA y : y # x)

RemoveFirst(s, x) ==
  IF x \in Range(s)
  THEN LET i == CHOOSE k \in 1..Len(s) : s[k] = x /\ \A j \in 1..(k - 1) : s[j] # x
       IN  SubSeq(s, 1, i - 1) \o SubSeq(s, i + 1, Len(s))
  ELSE s

\* ------------------------------------------- caller-supplied functions
\* The bodies handed to Computed(...) and Effect(...), as expression trees.
Const(k) == [op |-> "const", k |-> k]
Get(n) == [op |-> "get", n |-> n]
Add(l, r) == [op |-> "add", l |-> l, r |-> r]
Mul(l, r) == [op |-> "mul", l |-> l, r |-> r]
If(c, t, e) == [op |-> "if", c |-> c, t |-> t, e |-> e]
SetSig(n, v) == [op |-> "set", n |-> n, v |-> v]
First(l, r) == [op |-> "first", l |-> l, r |-> r]
\* if (c) throw new Error(); return t
ThrowIf(c, t) == [op |-> "throwif", c |-> c, t |-> t]

\* Object.is on the modelled values, and a caller-supplied comparator.
ObjectIs(a, b) == a = b
SameParity(a, b) == (a % 2) = (b % 2)

Progs == {"batch", "chain", "diamond", "branch", "branchfx", "selfwrite"}

\* batch: s1, s2 signals; E = Effect(s1() + s2()); W = Effect({ s1.set(1); s2.set(1) })
ProgBatch ==
  [kind |-> <<"signal", "signal", "effect", "effect">>,
   init |-> <<0, 0, NONE, NONE>>,
   dom  |-> <<Flags, Flags, {}, {}>>,
   eq   |-> <<"is", "is", "is", "is">>,
   fn   |-> <<Const(0), Const(0),
              Add(Get(1), Get(2)),
              First(SetSig(1, Const(1)), SetSig(2, Const(1)))>>]

\* chain: a = Signal(1); b = Computed(() => a() * 2); Effect(() => push(b()))
ProgChain ==
  [kind |-> <<"signal", "computed", "effect">>,
   init |-> <<1, NONE, NONE>>,
   dom  |-> <<Vals, {}, {}>>,
   eq   |-> <<"is", "is", "is">>,
   fn   |-> <<Const(0), Mul(Get(1), Const(2)), Get(2)>>]

\* diamond: A; B = A + 1; C = A * 2; D = B + C
ProgDiamond ==
  [kind |-> <<"signal", "computed", "computed", "computed">>,
   init |-> <<0, NONE, NONE, NONE>>,
   dom  |-> <<Vals, {}, {}, {}>>,
   eq   |-> <<"is", "is", "is", "is">>,
   fn   |-> <<Const(0), Add(Get(1), Const(1)), Mul(Get(1), Const(2)),
              Add(Get(2), Get(3))>>]

\* branch: c = Signal(1); x = Signal(0); D = Computed(() => c() ? x() : 7)
ProgBranch ==
  [kind |-> <<"signal", "signal", "computed">>,
   init |-> <<1, 0, NONE>>,
   dom  |-> <<Flags, Vals, {}>>,
   eq   |-> <<"is", "is", "is">>,
   fn   |-> <<Const(0), Const(0), If(Get(1), Get(2), Const(7))>>]

\* branchfx: c = Signal(1); x = Signal(0, { equal: SameParity });
\*           F = Effect(() => push(c() ? x() : 7))
ProgBranchfx ==
  [kind |-> <<"signal", "signal", "effect">>,
   init |-> <<1, 0, NONE>>,
   dom  |-> <<Flags, Vals, {}>>,
   eq   |-> <<"is", "parity", "is">>,
   fn   |-> <<Const(0), Const(0), If(Get(1), Get(2), Const(7))>>]

\* selfwrite: a = Signal(0); b = Computed(a); Effect(() => { r = b(); a.set(1) })
ProgSelfwrite ==
  [kind |-> <<"signal", "computed", "effect">>,
   init |-> <<0, NONE, NONE>>,
   dom  |-> <<Vals, {}, {}>>,
   eq   |-> <<"is", "is", "is">>,
   fn   |-> <<Const(0), Get(1), First(Get(2), SetSig(1, Const(1)))>>]

\* Programs whose functions can throw.
ThrowProgs == {"failfx", "failcomp", "failnest"}

\* failfx: a = Signal(0); E = Effect(() => { if (a()) throw ...; push(5) })
ProgFailfx ==
  [kind |-> <<"signal", "effect">>,
   init |-> <<0, NONE>>,
   dom  |-> <<Flags, {}>>,
   eq   |-> <<"is", "is">>,
   fn   |-> <<Const(0), ThrowIf(Get(1), Const(5))>>]

\* failcomp: a = Signal(0); y = Signal(0);
\*           D = Computed(() => { if (a()) throw ...; return 3 })
ProgFailcomp ==
  [kind |-> <<"signal", "signal", "computed">>,
   init |-> <<0, 0, NONE>>,
   dom  |-> <<Flags, Flags, {}>>,
   eq   |-> <<"is", "is", "is">>,
   fn   |-> <<Const(0), Const(0), ThrowIf(Get(1), Const(3))>>]

\* failnest: a = Signal(0); B = Computed(() => { if (a()) throw ...; return 3 });
\*           D = Computed(() => B() + 1); E = Effect(() => push(D()))
ProgFailnest ==
  [kind |-> <<"signal", "computed", "computed", "effect">>,
   init |-> <<0, NONE, NONE, NONE>>,
   dom  |-> <<Flags, {}, {}, {}>>,
   eq   |-> <<"is", "is", "is", "is">>,
   fn   |-> <<Const(0), ThrowIf(Get(1), Const(3)), Add(Get(2), Const(1)), Get(3)>>]

ProgDef(p) ==
  CASE p = "batch" -> ProgBatch
    [] p = "chain" -> ProgChain
    [] p = "diamond" -> ProgDiamond
    [] p = "branch" -> ProgBranch
    [] p = "branchfx" -> ProgBranchfx
    [] p = "selfwrite" -> ProgSelfwrite
    [] p = "failfx" -> ProgFailfx
    [] p = "failcomp" -> ProgFailcomp
    [] p = "failnest" -> ProgFailnest


\* ------------------------------------------------------------------ state
VARIABLES
  prog,           \* which program (set of nodes and their functions) is running
  impl,           \* which variant of the library is linked
  value,          \* WritableNode.value / ComputedNode.value (NONE = uncomputed)
  dirty,          \* ReactiveNode.dirty
  subs,           \* ReactiveNode.subs, in insertion order (one entry per WeakRef)
  deps,           \* ReactiveNode.deps
  ctxDeps,        \* ReactiveNode.ctxDeps
  context,        \* the module-level evaluation context
  taskScheduled,  \* EffectNode.taskScheduled
  destroyed,      \* EffectNode.destroyed
  queue,          \* the microtask queue: effects whose deferred task is pending
  handle,         \* Effect(): TRUE while the handle's closure still holds the node
  EFFECTS,        \* window[EFFECTS]
  \* history variables (observations, no influence on the program)
  fnCalls,        \* invocations of each node's function during the last action
  lastReads,      \* nodes read by each node's most recent completed evaluation
  seen,           \* value recorded by each effect's most recent run
  ret,            \* value returned by the last top-level getter call
  lastOp,         \* the last public call
  turnWrites,     \* sources written with a changed value in the current turn
  turnOwner,      \* effect whose run the current turn is (NONE: top-level code)
  running,        \* effect whose function is executing
  owed,           \* a source the effect read changed since its function last started
  staleRead,      \* some Computed getter returned a value other than its function's
  runsSinceRead,  \* function runs of a derived node since its last read returned or threw
  lazyBroken,     \* a derived node ran eagerly or more than once between two reads
  gateBroken,     \* a set(v) with equal(current, v) changed a value, a flag or the queue
  threw,          \* the last public call ended with an exception
  failed,         \* nodes whose most recent function invocation ended by throwing
  ctxBroken,      \* a function body or a getter returned normally with a context other than the expected one
  collected       \* effects the garbage collector has reclaimed (their WeakRefs deref to undefined)

vars == <<prog, impl, value, dirty, subs, deps, ctxDeps, context, taskScheduled,
          destroyed, queue, handle, EFFECTS, fnCalls, lastReads, seen, ret,
          lastOp, turnWrites, turnOwner, running, owed, staleRead,
          runsSinceRead, lazyBroken, gateBroken, threw, failed, ctxBroken,
          collected>>

Nodes == 1..Len(ProgDef(prog).kind)
Kind(n) == ProgDef(prog).kind[n]
Fn(n) == ProgDef(prog).fn[n]
Dom(n) == ProgDef(prog).dom[n]
Signals == {n \in Nodes : Kind(n) = "signal"}
Computeds == {n \in Nodes : Kind(n) = "computed"}
Effects == {n \in Nodes : Kind(n) = "effect"}

\* opts.equal of a Signal (default Object.is)
equal(n, a, b) ==
  IF ProgDef(prog).eq[n] = "parity" THEN SameParity(a, b) ELSE ObjectIs(a, b)

\* The program state threaded through the synchronous calls of one action.
St ==
  [value |-> value, dirty |-> dirty, subs |-> subs, deps |-> deps,
   ctxDeps |-> ctxDeps, context |-> context, taskScheduled |-> taskScheduled,
   destroyed |-> destroyed, queue |-> queue, handle |-> handle,
   EFFECTS |-> EFFECTS, fnCalls |-> fnCalls,
   lastReads |-> lastReads, seen |-> seen, turnWrites |-> turnWrites,
   turnOwner |-> turnOwner, running |-> running, owed |-> owed,
   staleRead |-> staleRead, runsSinceRead |-> runsSinceRead,
   lazyBroken |-> lazyBroken, gateBroken |-> gateBroken,
   thrown |-> threw, failed |-> failed, ctxBroken |-> ctxBroken,
   collected |-> collected]

\* ------------------------------------------------ what a function "should" give
RECURSIVE PureEval(_, _)
PureEval(e, vals) ==
  CASE e.op = "const" -> e.k
    [] e.op = "get" -> IF Kind(e.n) = "signal" THEN vals[e.n] ELSE PureEval(Fn(e.n), vals)
    [] e.op = "add" -> PureEval(e.l, vals) + PureEval(e.r, vals)
    [] e.op = "mul" -> PureEval(e.l, vals) * PureEval(e.r, vals)
    [] e.op = "if" -> IF PureEval(e.c, vals) # 0 THEN PureEval(e.t, vals) ELSE PureEval(e.e, vals)
    [] e.op = "first" -> PureEval(e.l, vals)
    [] e.op = "set" -> PureEval(e.v, vals)
    [] e.op = "throwif" -> PureEval(e.t, vals)

PureVal(n, vals) == PureEval(Fn(n), vals)

\* Sources reachable from a set of nodes through the edges of derived nodes.
RECURSIVE SourcesOf(_, _)
SourcesOf(st, S) ==
  LET via == UNION {st.deps[c] \cup st.ctxDeps[c] : c \in {m \in S : Kind(m) = "computed"}}
  IN  IF via \subseteq S THEN {m \in S : Kind(m) = "signal"} ELSE SourcesOf(st, S \cup via)

\* Source nodes an effect read in its most recent run (the one in progress, if any).
ReadSources(st, e) ==
  SourcesOf(st, IF st.running = e THEN st.ctxDeps[e] ELSE st.deps[e])

\* Evaluate v once, then F on its value (each call below runs once, in order).
With(v, F(_)) == CHOOSE y \in {F(x) : x \in {v}} : TRUE

\* ------------------------------------------------------------ ReactiveNode
subscribe(st, n, sub) ==
  IF impl = "part_000"
  THEN IF sub \in Range(st.subs[n]) THEN st ELSE [st EXCEPT !.subs[n] = Append(@, sub)]
  ELSE [st EXCEPT !.subs[n] = Append(@, sub)]

unsubscribe(st, n, sub) ==
  IF impl = "part_000"
  THEN [st EXCEPT !.subs[n] = RemoveAll(@, sub)]
  ELSE [st EXCEPT !.subs[n] = RemoveFirst(@, sub)]

\* faulty variants of EffectNode.markAsDisty: the scheduled guard or the destroyed guard dropped
EffectNode_markAsDisty_NoFlagGuard(st, e) ==
  IF impl = "part_000" /\ st.destroyed[e]
  THEN st
  ELSE [st EXCEPT !.queue = Append(@, e), !.taskScheduled[e] = TRUE]

EffectNode_markAsDisty_NoDestroyGuard(st, e) ==
  IF st.taskScheduled[e]
  THEN st
  ELSE [st EXCEPT !.queue = Append(@, e), !.taskScheduled[e] = TRUE]

EffectNode_markAsDisty(st, e) ==
  IF st.taskScheduled[e] \/ (impl = "part_000" /\ st.destroyed[e])
  THEN st
  ELSE [st EXCEPT !.queue = Append(@, e), !.taskScheduled[e] = TRUE]

RECURSIVE markAsDisty(_, _), notifySubs(_, _, _)

\* for (const ref of this.subs) { const sub = ref.deref();
\*   if (sub) sub.markAsDisty(); else this.subs.delete(ref) }
notifySubs(st, n, refs) ==
  IF refs = <<>> THEN st
  ELSE With(IF Head(refs) \in st.collected
            THEN [st EXCEPT !.subs[n] = RemoveFirst(@, Head(refs))]
            ELSE markAsDisty(st, Head(refs)),
            LAMBDA s1 : notifySubs(s1, n, Tail(refs)))

\* faulty variant of ReactiveNode.markAsDisty: the node is marked but its subscribers are not told
ReactiveNode_markAsDisty_NoPush(st, n) ==
  IF ~st.dirty[n] THEN [st EXCEPT !.dirty[n] = TRUE] ELSE st

ReactiveNode_markAsDisty(st, n) ==
  IF ~st.dirty[n]
  THEN With([st EXCEPT !.dirty[n] = TRUE], LAMBDA s1 : notifySubs(s1, n, s1.subs[n]))
  ELSE st

\* virtual dispatch of sub.markAsDisty()
markAsDisty(st, n) ==
  IF Kind(n) = "effect" THEN EffectNode_markAsDisty(st, n) ELSE ReactiveNode_markAsDisty(st, n)

addAsSub(st, n) ==
  IF st.context = NONE THEN st
  ELSE With(subscribe(st, n, st.context),
            LAMBDA s1 : [s1 EXCEPT !.ctxDeps[st.context] = @ \cup {n}])

\* ------------------------------------------------------------ WritableNode
WritableNode_setValue(st, n, v) ==
  With([st EXCEPT !.value[n] = v,
                  !.turnWrites = @ \cup {n},
                  !.owed = [e \in Effects |-> @[e] \/ n \in ReadSources(st, e)]],
       LAMBDA s1 : notifySubs(s1, n, s1.subs[n]))

WritableNode_getValue(st, n) ==
  With(addAsSub(st, n), LAMBDA s1 : [st |-> s1, val |-> s1.value[n]])

\* --------------------------------------- reconciliation shared by compute/runEffect
RECURSIVE unsubscribeFrom(_, _, _)
unsubscribeFrom(st, ds, n) ==
  IF ds = {} THEN st
  ELSE With(CHOOSE x \in ds : TRUE,
            LAMBDA d : With(unsubscribe(st, d, n),
                            LAMBDA s1 : unsubscribeFrom(s1, ds \ {d}, n)))

reconcile(st, n) ==
  With({d \in st.deps[n] : d \notin st.ctxDeps[n]}, LAMBDA gone :
  With([st EXCEPT !.deps[n] = @ \ gone], LAMBDA s0 :
  With(unsubscribeFrom(s0, gone, n), LAMBDA s1 :
    [s1 EXCEPT !.deps[n] = @ \cup {c \in s1.ctxDeps[n] : c \notin s1.deps[n]},
               !.lastReads[n] = s1.ctxDeps[n],
               !.ctxDeps[n] = {}])))

\* ------------------------------------------------------------ ComputedNode
RECURSIVE Eval(_, _), compute(_, _), ComputedNode_getValue(_, _), getValue(_, _),
          Signal_set(_, _, _)

compute(st, n) ==
  With([st EXCEPT !.context = n,
                  !.fnCalls[n] = @ + 1,
                  !.runsSinceRead[n] = @ + 1,
                  !.lazyBroken = @ \/ ~(st.value[n] = NONE \/ st.dirty[n])], LAMBDA s1 :
  With(Eval(s1, Fn(n)), LAMBDA r :
    IF r.st.thrown
    THEN [st |-> [r.st EXCEPT !.failed = @ \cup {n}, !.runsSinceRead[n] = 0],
          val |-> NONE]
    ELSE With(reconcile(r.st, n), LAMBDA s2 :
           [st |-> [s2 EXCEPT !.context = st.context,
                              !.failed = @ \ {n},
                              !.ctxBroken = @ \/ r.st.context # n],
            val |-> r.val])))

\* what a getter call that ends in state st and returns st.value[n] shows
observeRead(st, n) ==
  [st |-> [st EXCEPT !.staleRead = @ \/ st.value[n] # PureVal(n, st.value),
                     !.lazyBroken = @ \/ st.runsSinceRead[n] > 1,
                     !.runsSinceRead[n] = 0],
   val |-> st.value[n]]

\* faulty variants of ComputedNode.getValue: the dirty flag ignored; the cache ignored
ComputedNode_getValue_IgnoreDirty(st, n) ==
  With(addAsSub(st, n), LAMBDA s1 :
    IF s1.value[n] = NONE
    THEN With(compute(s1, n), LAMBDA r :
           observeRead([r.st EXCEPT !.value[n] = r.val, !.dirty[n] = FALSE], n))
    ELSE observeRead(s1, n))

ComputedNode_getValue_NoMemo(st, n) ==
  With(addAsSub(st, n), LAMBDA s1 :
    With(compute(s1, n), LAMBDA r :
      observeRead([r.st EXCEPT !.value[n] = r.val, !.dirty[n] = FALSE], n)))

\* faulty variant of ComputedNode.getValue: the dirty flag is cleared before the function runs
ComputedNode_getValue_ClearFirst(st, n) ==
  With(addAsSub(st, n), LAMBDA s1 :
    IF s1.value[n] = NONE \/ s1.dirty[n]
    THEN With(compute([s1 EXCEPT !.dirty[n] = FALSE], n), LAMBDA r :
           IF r.st.thrown THEN r
           ELSE observeRead([r.st EXCEPT !.value[n] = r.val], n))
    ELSE observeRead(s1, n))

ComputedNode_getValue(st, n) ==
  With(addAsSub(st, n), LAMBDA s1 :
    IF s1.value[n] = NONE \/ s1.dirty[n]
    THEN With(compute(s1, n), LAMBDA r :
           IF r.st.thrown THEN r
           ELSE observeRead([r.st EXCEPT !.value[n] = r.val, !.dirty[n] = FALSE,
                                         !.ctxBroken = @ \/ r.st.context # s1.context], n))
    ELSE observeRead(s1, n))

\* signalFn() / computedFn()
getValue(st, n) ==
  IF Kind(n) = "signal" THEN WritableNode_getValue(st, n) ELSE ComputedNode_getValue(st, n)

\* what a set(v) call that started in state st and ended in state s1 shows
observeSet(st, s1, n, v) ==
  [s1 EXCEPT !.gateBroken =
     @ \/ (equal(n, st.value[n], v) /\ <<s1.value, s1.dirty, s1.taskScheduled, s1.queue>>
                                       # <<st.value, st.dirty, st.taskScheduled, st.queue>>)]

\* faulty variant of signalFn.set: the comparator is not consulted
Signal_set_NoGate(st, n, v) ==
  With(WritableNode_getValue(st, n), LAMBDA r :
  With(WritableNode_setValue(r.st, n, v), LAMBDA s1 : observeSet(st, s1, n, v)))

\* signalFn.set(v)
Signal_set(st, n, v) ==
  With(WritableNode_getValue(st, n), LAMBDA r :
  With(IF ~equal(n, r.val, v) THEN WritableNode_setValue(r.st, n, v) ELSE r.st,
       LAMBDA s1 : observeSet(st, s1, n, v)))

\* Execution of a caller-supplied function body.  An exception (st.thrown)
\* abandons the rest of every body and of every library method it passes through.
Eval(st, e) ==
  CASE e.op = "const" -> [st |-> st, val |-> e.k]
    [] e.op = "get" -> getValue(st, e.n)
    [] e.op = "add" -> With(Eval(st, e.l), LAMBDA l :
                         IF l.st.thrown THEN l
                         ELSE With(Eval(l.st, e.r), LAMBDA r :
                                [st |-> r.st, val |-> l.val + r.val]))
    [] e.op = "mul" -> With(Eval(st, e.l), LAMBDA l :
                         IF l.st.thrown THEN l
                         ELSE With(Eval(l.st, e.r), LAMBDA r :
                                [st |-> r.st, val |-> l.val * r.val]))
    [] e.op = "if" -> With(Eval(st, e.c), LAMBDA c :
                        IF c.st.thrown THEN c
                        ELSE IF c.val # 0 THEN Eval(c.st, e.t) ELSE Eval(c.st, e.e))
    [] e.op = "first" -> With(Eval(st, e.l), LAMBDA l :
                           IF l.st.thrown THEN l
                           ELSE With(Eval(l.st, e.r), LAMBDA r :
                                  [st |-> r.st, val |-> l.val]))
    [] e.op = "set" -> With(Eval(st, e.v), LAMBDA v :
                         IF v.st.thrown THEN v
                         ELSE With(Signal_set(v.st, e.n, v.val), LAMBDA s1 :
                                [st |-> s1, val |-> v.val]))
    [] e.op = "throwif" -> With(Eval(st, e.c), LAMBDA c :
                             IF c.st.thrown THEN c
                             ELSE IF c.val # 0
                                  THEN [st |-> [c.st EXCEPT !.thrown = TRUE], val |-> NONE]
                                  ELSE Eval(c.st, e.t))

\* -------------------------------------------------------------- EffectNode
runEffect(st, e) ==
  With([st EXCEPT !.context = e,
                  !.running = e,
                  !.fnCalls[e] = @ + 1,
                  !.owed[e] = FALSE], LAMBDA s1 :
  With(Eval(s1, Fn(e)), LAMBDA r :
    IF r.st.thrown
    THEN [r.st EXCEPT !.running = NONE, !.failed = @ \cup {e}]
    ELSE With(reconcile(r.st, e), LAMBDA s2 :
           [s2 EXCEPT !.context = st.context, !.running = NONE, !.seen[e] = r.val,
                      !.failed = @ \ {e},
                      !.ctxBroken = @ \/ r.st.context # e])))

\* the closure handed to queueMicrotask: () => { this.runEffect(); this.taskScheduled = false }
microtask(st, e) ==
  With(runEffect(st, e), LAMBDA s1 :
    IF s1.thrown THEN s1 ELSE [s1 EXCEPT !.taskScheduled[e] = FALSE])

EffectNode_destroy(st, e) ==
  With(unsubscribeFrom(st, st.deps[e], e),
       LAMBDA s1 : [s1 EXCEPT !.deps[e] = {}, !.destroyed[e] = TRUE])

\* handle.destroy()
Effect_destroy(st, e) ==
  IF st.handle[e]
  THEN With([st EXCEPT !.EFFECTS = @ \ {e}], LAMBDA s0 :
       With(EffectNode_destroy(s0, e), LAMBDA s1 : [s1 EXCEPT !.handle[e] = FALSE]))
  ELSE st

\* ----------------------------------------------------------------- actions
\* kind and node of the call; v: the argument of a set; changed: a set that
\* stored a new value; fresh: for a set, every derived node was computed and
\* clean before it; for a read, the call before it was a changed, fresh set.
NoOp == [kind |-> "init", n |-> NONE, v |-> NONE, changed |-> FALSE, fresh |-> FALSE]

\* Every derived node holds a value and is clean.
Settled == \A c \in Computeds : value[c] # NONE /\ ~dirty[c]

\* State at the start of a public call: the per-call observations are reset, and
\* a call from top-level code after a deferred task starts a new turn.
Begin(owner) ==
  [St EXCEPT !.fnCalls = [n \in Nodes |-> 0],
             !.thrown = FALSE,
             !.turnWrites = IF owner = NONE /\ turnOwner = NONE THEN @ ELSE {},
             !.turnOwner = owner]

\* Bound on the length of a subscriber list (index.ts adds a WeakRef per read).
SubsBounded(st) == \A n \in Nodes : Len(st.subs[n]) <= MaxSubs

Commit(st) ==
  /\ value' = st.value
  /\ dirty' = st.dirty
  /\ subs' = st.subs
  /\ deps' = st.deps
  /\ ctxDeps' = st.ctxDeps
  /\ context' = st.context
  /\ taskScheduled' = st.taskScheduled
  /\ destroyed' = st.destroyed
  /\ queue' = st.queue
  /\ handle' = st.handle
  /\ EFFECTS' = st.EFFECTS
  /\ fnCalls' = st.fnCalls
  /\ lastReads' = st.lastReads
  /\ seen' = st.seen
  /\ turnWrites' = st.turnWrites
  /\ turnOwner' = st.turnOwner
  /\ running' = st.running
  /\ owed' = st.owed
  /\ staleRead' = st.staleRead
  /\ runsSinceRead' = st.runsSinceRead
  /\ lazyBroken' = st.lazyBroken
  /\ gateBroken' = st.gateBroken
  /\ threw' = st.thrown
  /\ failed' = st.failed
  /\ ctxBroken' = st.ctxBroken
  /\ collected' = st.collected
  /\ UNCHANGED <<prog, impl>>

\* top-level code calls signalFn.set(v)
Set(n, v) ==
  /\ \E s0 \in {Begin(NONE)} : \E st \in {Signal_set(s0, n, v)} :
       /\ SubsBounded(st)
       /\ Commit(st)
       /\ ret' = NONE
       /\ lastOp' = [kind |-> "set", n |-> n, v |-> v,
                     changed |-> st.value[n] # value[n], fresh |-> Settled]

\* top-level code calls signalFn() or computedFn()
Read(n) ==
  /\ \E s0 \in {Begin(NONE)} : \E r \in {getValue(s0, n)} :
       /\ SubsBounded(r.st)
       /\ Commit(r.st)
       /\ ret' = r.val
       /\ lastOp' = [kind |-> "read", n |-> n, v |-> NONE, changed |-> FALSE,
                     fresh |-> lastOp.kind = "set" /\ lastOp.changed /\ lastOp.fresh]

\* the event loop runs the oldest pending microtask
RunTask ==
  /\ queue # <<>>
  /\ \E e \in {Head(queue)} : \E s0 \in {[Begin(e) EXCEPT !.queue = Tail(queue)]} :
     \E st \in {microtask(s0, e)} :
       /\ SubsBounded(st)
       /\ Commit(st)
       /\ ret' = NONE
       /\ lastOp' = [kind |-> "task", n |-> e, v |-> NONE, changed |-> FALSE, fresh |-> FALSE]

\* top-level code calls handle.destroy() (part_000 only: index.ts returns no
\* handle); a second call on the same handle finds node = null and does nothing
Destroy(e) ==
  /\ impl = "part_000"
  /\ IF handle[e]
     THEN \E s0 \in {Begin(NONE)} : \E st \in {Effect_destroy(s0, e)} :
            /\ Commit(st)
            /\ ret' = NONE
            /\ lastOp' = [kind |-> "destroy", n |-> e, v |-> NONE,
                          changed |-> FALSE, fresh |-> FALSE]
     ELSE UNCHANGED vars

\* ------------------------------------------------------------------- Init
\* The state after the program's Signal(...), Computed(...), Effect(...) calls:
\* each EffectNode constructor has called markAsDisty(), so its first run is queued.
RECURSIVE SeqOfSet(_)
SeqOfSet(S) ==
  IF S = {} THEN <<>>
  ELSE LET m == CHOOSE x \in S : \A y \in S : x <= y
       IN  <<m>> \o SeqOfSet(S \ {m})

Constructed ==
  /\ value = [n \in Nodes |-> ProgDef(prog).init[n]]
  /\ dirty = [n \in Nodes |-> FALSE]
  /\ subs = [n \in Nodes |-> <<>>]
  /\ deps = [n \in Nodes |-> {}]
  /\ ctxDeps = [n \in Nodes |-> {}]
  /\ context = NONE
  /\ taskScheduled = [e \in Effects |-> TRUE]
  /\ destroyed = [e \in Effects |-> FALSE]
  /\ queue = SeqOfSet(Effects)
  /\ handle = [e \in Effects |-> impl = "part_000"]
  /\ EFFECTS = IF impl = "part_000" THEN Effects ELSE {}
  /\ fnCalls = [n \in Nodes |-> 0]
  /\ lastReads = [n \in Nodes |-> {}]
  /\ seen = [e \in Effects |-> NONE]
  /\ ret = NONE
  /\ lastOp = NoOp
  /\ turnWrites = {}
  /\ turnOwner = NONE
  /\ running = NONE
  /\ owed = [e \in Effects |-> FALSE]
  /\ staleRead = FALSE
  /\ runsSinceRead = [n \in Nodes |-> 0]
  /\ lazyBroken = FALSE
  /\ gateBroken = FALSE
  /\ threw = FALSE
  /\ failed = {}
  /\ ctxBroken = FALSE
  /\ collected = {}

Init ==
  /\ prog \in Progs
  /\ impl \in Impls
  /\ Constructed

Next ==
  \/ \E n \in Signals : \E v \in Dom(n) : Set(n, v)
  \/ \E n \in Signals \cup Computeds : Read(n)
  \/ RunTask
  \/ \E e \in Effects : Destroy(e)

Spec == Init /\ [][Next]_vars

\* ------------------------------------------- programs whose functions throw
InitThrow ==
  /\ prog \in ThrowProgs
  /\ impl \in Impls
  /\ Constructed

SpecThrow == InitThrow /\ [][Next]_vars

\* ------------------------------------------------------ garbage collection
\* Strong references to an EffectNode: window[EFFECTS], the closure of a handle
\* the caller still holds, the closure of a pending microtask and the context
\* variable.  Subscriber lists hold WeakRefs only, and nothing has an effect
\* among its deps.
StronglyReachable(e) ==
  e \in EFFECTS \/ handle[e] \/ e \in Range(queue) \/ context = e

\* the collector reclaims an unreachable EffectNode: every WeakRef to it now
\* derefs to undefined
Collect(e) ==
  /\ e \notin collected
  /\ ~StronglyReachable(e)
  /\ collected' = collected \cup {e}
  /\ UNCHANGED <<prog, impl, value, dirty, subs, deps, ctxDeps, context,
                 taskScheduled, destroyed, queue, handle, EFFECTS, fnCalls,
                 lastReads, seen, ret, lastOp, turnWrites, turnOwner, running,
                 owed, staleRead, runsSinceRead, lazyBroken, gateBroken, threw,
                 failed, ctxBroken>>

\* the caller discards the handle Effect() returned without calling destroy()
\* (as setupCounter does)
DropHandle(e) ==
  /\ impl = "part_000"
  /\ handle[e]
  /\ handle' = [handle EXCEPT ![e] = FALSE]
  /\ UNCHANGED <<prog, impl, value, dirty, subs, deps, ctxDeps, context,
                 taskScheduled, destroyed, queue, EFFECTS, fnCalls,
                 lastReads, seen, ret, lastOp, turnWrites, turnOwner, running,
                 owed, staleRead, runsSinceRead, lazyBroken, gateBroken, threw,
                 failed, ctxBroken, collected>>

GCProgs == {"chain", "branchfx"}

InitGC ==
  /\ prog \in GCProgs
  /\ impl \in Impls
  /\ Constructed

NextGC ==
  \/ Next
  \/ \E e \in Effects : Collect(e)
  \/ \E e \in Effects : DropHandle(e)

SpecGC == InitGC /\ [][NextGC]_vars

\* ================================================================== claims
InQueue(e) == e \in Range(queue)

C2_EveryChangeReruns ==
  \A e \in Effects : owed[e] /\ ~destroyed[e] => InQueue(e)

\* C3 (no stale reads): every Computed getter call, at top level or inside an
\* evaluation, returns what its function gives on the current source values;
\* an effect that records a derived value records the current one.
C3_NoStaleReads ==
  /\ ~staleRead
  /\ lastOp.kind = "read" => ret = (IF Kind(lastOp.n) = "signal" THEN value[lastOp.n]
                                    ELSE PureVal(lastOp.n, value))
  /\ lastOp.kind = "task" /\ prog \in {"chain", "branchfx"}
       => seen[lastOp.n] = PureVal(lastOp.n, value)

\* C3 witness: the chain effect has re-recorded b() after a write to a.
C3_Witness ==
  /\ prog = "chain"
  /\ lastOp.kind = "task"
  /\ value[1] = 2
  /\ seen[3] = 4

\* C4 (laziness): no write (and no destroy) invokes a derived node's function;
\* the function runs only inside a read of the node, only when the node is
\* uncomputed or dirty, and at most once from one read's return to the next's.
C4_Lazy ==
  /\ ~lazyBroken
  /\ \A c \in Computeds : runsSinceRead[c] = 0
  /\ lastOp.kind \in {"set", "destroy"} => \A c \in Computeds : fnCalls[c] = 0
  /\ lastOp.kind = "read" => \A c \in Computeds : fnCalls[c] <= 1

\* C4 witness: a read that follows a changed write recomputes the node once.
C4_Witness ==
  /\ lastOp.kind = "read"
  /\ lastOp.fresh
  /\ Kind(lastOp.n) = "computed"
  /\ fnCalls[lastOp.n] = 1

\* C5 (diamond): with B, C, D evaluated and clean, one changed write to A
\* followed by one read of D runs the functions of B, C and D exactly once each
\* and returns the value of D's function on the new A.
C5_Diamond ==
  (prog = "diamond" /\ lastOp.kind = "read" /\ lastOp.n = 4 /\ lastOp.fresh)
  => /\ fnCalls[2] = 1
     /\ fnCalls[3] = 1
     /\ fnCalls[4] = 1
     /\ ret = PureVal(4, value)

\* C5 witness: D was read right after a write to A made from a settled diamond.
C5_Witness ==
  /\ prog = "diamond"
  /\ lastOp.kind = "read"
  /\ lastOp.n = 4
  /\ lastOp.fresh
  /\ value[1] = 2
  /\ ret = 7

\* C6 (dynamic dependency pruning), as claimed: after any step, a node whose
\* most recent evaluation did not read X is not referenced by X's subscriber
\* list; and a top-level write to a source X that the node's most recent
\* evaluation did not read, directly or through derived nodes, leaves the
\* node's dirty flag and scheduled flag as they were.
C6_Pruned ==
  [][\A n \in Computeds \cup Effects : \A x \in Nodes :
       /\ x \notin lastReads'[n] => n \notin Range(subs'[x])
       /\ (lastOp'.kind = "set" /\ lastOp'.n = x /\ x \notin SourcesOf(St, lastReads[n]))
            => /\ dirty'[n] = dirty[n]
               /\ n \in Effects => taskScheduled'[n] = taskScheduled[n]]_vars

\* C7 (destroy stops write-triggered runs): once an effect is destroyed no step
\* sets its scheduled flag or adds a deferred task for it, and unless a task was
\* already pending no step invokes its function.
C7_NoScheduleAfterDestroy ==
  [][\A e \in Effects :
       destroyed[e] =>
         /\ taskScheduled'[e] => taskScheduled[e]
         /\ Count(queue', e) <= Count(queue, e)
         /\ ~InQueue(e) => fnCalls'[e] = 0]_vars

\* C7 witness: a changed write has notified a destroyed effect, which stayed idle.
C7_Witness ==
  /\ lastOp.kind = "set"
  /\ lastOp.changed
  /\ \E e \in Effects :
       /\ destroyed[e]
       /\ e \in Range(subs[lastOp.n])
       /\ ~taskScheduled[e]
       /\ ~InQueue(e)

\* C8 (destroy releases subscriptions), as claimed: a destroyed effect is in no
\* subscriber list and has no dependencies.
C8_Released ==
  \A e \in Effects :
    destroyed[e] => deps[e] = {} /\ \A n \in Nodes : e \notin Range(subs[n])

\* C9 (destroy permanently stops future runs), as claimed: no step invokes the
\* function of a destroyed effect.
C9_NoRunAfterDestroy ==
  [][\A e \in Effects : destroyed[e] => fnCalls'[e] = 0]_vars

\* C10 (equality gate): a set(v) with equal(current, v) leaves every value,
\* every dirty flag, every scheduled flag and the task queue unchanged, for
\* top-level calls and calls made inside an effect; a top-level set(v) with
\* equal false stores v, dirties every derived subscriber and leaves every live
\* effect subscriber with a task pending.
C10_EqualityGate ==
  [][ /\ ~gateBroken'
      /\ lastOp'.kind = "set" =>
           LET n == lastOp'.n
               v == lastOp'.v
           IN  IF equal(n, value[n], v)
               THEN /\ value' = value
                    /\ dirty' = dirty
                    /\ taskScheduled' = taskScheduled
                    /\ queue' = queue
               ELSE /\ value'[n] = v
                    /\ \A m \in Range(subs[n]) :
                         /\ Kind(m) = "computed" => dirty'[m]
                         /\ (Kind(m) = "effect" /\ ~destroyed[m])
                              => taskScheduled'[m] /\ Count(queue', m) = 1 ]_vars

\* C10 witness: a set that the comparator treats as equal to the stored value
\* (though the argument differs) left a subscribed, idle effect unscheduled.
C10_Witness ==
  /\ lastOp.kind = "set"
  /\ ~lastOp.changed
  /\ lastOp.v # value[lastOp.n]
  /\ \E e \in Effects :
       /\ e \in Range(subs[lastOp.n])
       /\ ~destroyed[e]
       /\ ~taskScheduled[e]

\* ------------------------------------------------ claims about failing functions
\* C11 (a failing run does not wedge the effect), as claimed: when the deferred
\* task of an effect ends because its function threw, the effect's scheduled
\* flag is clear; and a changed write to a source that a live effect is
\* subscribed to leaves a run of that effect pending even if its last run threw.
C11_NotWedged ==
  /\ (lastOp.kind = "task" /\ threw) => ~taskScheduled[lastOp.n]
  /\ (lastOp.kind = "set" /\ lastOp.changed) =>
       \A e \in Effects :
         (e \in failed /\ ~destroyed[e] /\ e \in Range(subs[lastOp.n])) => InQueue(e)

\* C12 (exception-safe context restore), as claimed: a public call that ends
\* with an exception leaves the evaluation context as it found it, and a later
\* top-level read of a source adds no subscription and no pending dependency
\* for a node whose function failed.
C12_ContextRestored ==
  [][ /\ threw' => context' = context
      /\ (lastOp'.kind = "read" /\ Kind(lastOp'.n) = "signal") =>
           \A m \in failed :
             /\ Count(subs'[lastOp'.n], m) = Count(subs[lastOp'.n], m)
             /\ ctxDeps'[m] = ctxDeps[m] ]_vars

\* C13 (failed recomputation is retried): when the function of a derived node
\* throws during a call, the call ends with the exception and the node's cached
\* value is what it was before; a node whose last computation failed is
\* uncomputed or dirty; and the next read of it invokes its function again.
C13_FailedRecomputeRetried ==
  [][\A c \in Computeds :
       /\ (fnCalls'[c] > 0 /\ c \in failed') => (threw' /\ value'[c] = value[c])
       /\ c \in failed' => (value'[c] = NONE \/ dirty'[c])
       /\ (c \in failed /\ lastOp'.kind = "read" /\ lastOp'.n = c) => fnCalls'[c] >= 1 ]_vars

\* C13 witness: a read of a derived node that had a value failed, and the
\* node still holds that value and is still dirty.
C13_Witness ==
  /\ lastOp.kind = "read"
  /\ Kind(lastOp.n) = "computed"
  /\ threw
  /\ lastOp.n \in failed
  /\ fnCalls[lastOp.n] = 1
  /\ value[lastOp.n] # NONE
  /\ dirty[lastOp.n]

\* ------------------------------------------------------- claims about edges
\* LiveRef(a, b): a's subscriber list holds a WeakRef whose target b is alive.
LiveRef(a, b) == b \in Range(subs[a]) /\ b \notin collected

\* C14 (edge consistency at rest), as claimed: whenever the evaluation context
\* is none, A is in B's dependency set exactly when A's subscriber list holds
\* a live reference to B.
C14_EdgeConsistency ==
  context = NONE =>
    \A a \in Nodes : \A b \in Nodes : a \in deps[b] <=> LiveRef(a, b)

\* Nodes that depend on a node of S, directly or through derived nodes, by the
\* dependency sets their last completed evaluations left.
RECURSIVE DependentsOf(_)
DependentsOf(S) ==
  LET more == {m \in Nodes : deps[m] \cap S # {}}
  IN  IF more \subseteq S THEN S ELSE DependentsOf(S \cup more)

\* C15 (push phase completeness), as claimed: when a top-level write that
\* changed a source's value has returned, every derived node that depends on
\* the source, directly or transitively, is dirty and every live effect that
\* depends on it has a run pending.
C15_PushComplete ==
  (lastOp.kind = "set" /\ lastOp.changed) =>
    \A m \in DependentsOf({lastOp.n}) :
      /\ Kind(m) = "computed" => dirty[m]
      /\ (Kind(m) = "effect" /\ ~destroyed[m]) => InQueue(m)

\* C16 (subscription deduplication), as claimed: no subscriber list holds more
\* than one reference to the same dependent node.
C16_Deduplicated ==
  \A n \in Nodes : \A m \in Nodes : Count(subs[n], m) <= 1

\* ----------------------------------------------------- claims about context
\* C17 (context discipline), as claimed: a function body that returns normally
\* ends with its own node as the context (nested evaluations have restored
\* it), a getter that returns normally leaves the context it found, and
\* between public calls, when no evaluation is in flight, the context is none.
C17_ContextDiscipline ==
  /\ ~ctxBroken
  /\ context = NONE

\* C18 (untracked reads), as claimed: a getter call made by top-level code
\* adds no subscriber reference to, and changes no dependency set or pending
\* dependency set of, any node whose function the call did not evaluate.
C18_UntrackedReads ==
  [][lastOp'.kind = "read" =>
       \A m \in Nodes :
         fnCalls'[m] = 0 =>
           /\ deps'[m] = deps[m]
           /\ ctxDeps'[m] = ctxDeps[m]
           /\ \A x \in Nodes : Count(subs'[x], m) <= Count(subs[x], m) ]_vars

\* Nodes whose getter a function body calls.
RECURSIVE GetsOf(_)
GetsOf(e) ==
  CASE e.op = "const" -> {}
    [] e.op = "get" -> {e.n}
    [] e.op \in {"add", "mul", "first"} -> GetsOf(e.l) \cup GetsOf(e.r)
    [] e.op = "if" -> GetsOf(e.c) \cup GetsOf(e.t) \cup GetsOf(e.e)
    [] e.op = "set" -> GetsOf(e.v)
    [] e.op = "throwif" -> GetsOf(e.c) \cup GetsOf(e.t)

\* Nodes whose getter the function of m calls, directly or through the
\* functions of the derived nodes it reads.
RECURSIVE ReadsOf(_)
ReadsOf(S) ==
  LET more == UNION {GetsOf(Fn(m)) : m \in {x \in S : Kind(x) # "signal"}}
  IN  IF more \subseteq S THEN S ELSE ReadsOf(S \cup more)

\* C19 (writes do not subscribe), as claimed: a node whose function never
\* calls the getter of a Signal is not in that Signal's subscriber list and
\* does not have it as a dependency, and a top-level write to a Signal that an
\* effect reads neither directly nor through derived nodes adds no deferred
\* task for that effect.
C19_WritesDoNotSubscribe ==
  [][\A m \in Computeds \cup Effects : \A s \in Signals :
       /\ s \notin GetsOf(Fn(m)) => (m \notin Range(subs'[s]) /\ s \notin deps'[m])
       /\ (m \in Effects /\ s \notin ReadsOf({m}) /\ lastOp'.kind = "set" /\ lastOp'.n = s)
            => Count(queue', m) <= Count(queue, m) ]_vars

\* ------------------------------------------- claim about garbage collection
\* C20 (live effects are not lost to weak-reference pruning), as claimed: an
\* effect that has run and has not been destroyed is never reclaimed by the
\* collector, stays in the subscriber list of every node it depends on, and
\* has a run pending after a changed write to a source it read.
C20_LiveEffectsKept ==
  \A e \in Effects :
    (~destroyed[e] /\ seen[e] # NONE) =>
      /\ e \notin collected
      /\ \A x \in deps[e] : LiveRef(x, e)
      /\ (lastOp.kind = "set" /\ lastOp.changed /\ lastOp.n \in SourcesOf(St, deps[e]))
           => InQueue(e)

====
